---- MODULE Spec2Model ----
(***************************************************************************)
(* The resilient Gemini client layer of the vocabulary app: the error      *)
(* classifier (parseGeminiError), the process-wide quota cooldown          *)
(* (setGeminiQuotaExhaustedCooldown and its timer) and the retrying        *)
(* request executors (generateWordDetailsWithGemini,                       *)
(* generateImageForWordWithGemini).                                        *)
(*                                                                         *)
(* Strings are sequences of word tokens; toLowerCase / toUpperCase map     *)
(* each token through a table and String.includes looks for a token.       *)
(* JavaScript values are records tagged by their typeof in field t.        *)
(***************************************************************************)
EXTENDS Integers, Sequences, FiniteSets, TLC

\* ------------------------------------------------------------------ bounds

\* Longest error message, in tokens.
MaxMsgLen == 2
\* Number of executor invocations that may overlap on the event loop.
NumInv == 2
\* Largest retry count a caller passes (the call sites' defaults are 2 and 1).
MaxRetries == 2
\* Messages sent, stream fragments delivered and conversations started on
\* the tutor chat screen.
MaxSends == 2
MaxChunks == 2
MaxChats == 2
\* Whitespace characters on each side of a fenced block and of its body.
MaxPad == 1
\* Words selected for a bulk import.
MaxWords == 7

\* ------------------------------------------------------ JavaScript values

Undefined == [t |-> "undefined"]
Null == [t |-> "null"]
Num(n) == [t |-> "number", n |-> n]
Str(s) == [t |-> "string", s |-> s]
\* An object: its own properties p (a missing property reads as undefined)
\* and str, what String(obj) yields through its toString.
Obj(p, str) == [t |-> "object", p |-> p, str |-> str, printable |-> TRUE]
\* An object with no toString and no valueOf to convert it, such as
\* Object.create(null) with own properties p.
BareObj(p) == [t |-> "object", p |-> p, str |-> <<>>, printable |-> FALSE]

PropNames == {"error", "message", "status", "code"}
NoProps == [n \in PropNames |-> Undefined]

\* The result of evaluating an expression that threw.
Thrown == [t |-> "thrown"]

\* v.name: a TypeError on null and undefined, undefined on a primitive.
Get(v, name) ==
    IF v.t \in {"thrown", "undefined", "null"} THEN Thrown
    ELSE IF v.t = "object" THEN v.p[name]
    ELSE Undefined

\* JavaScript truthiness.
Truthy(v) ==
    CASE v.t = "undefined" -> FALSE
      [] v.t = "null" -> FALSE
      [] v.t = "number" -> v.n /= 0
      [] v.t = "string" -> v.s /= <<>>
      [] OTHER -> TRUE

\* A condition evaluates to "true", "false" or "throw"; && short-circuits.
TruthyC(v) == IF v.t = "thrown" THEN "throw" ELSE IF Truthy(v) THEN "true" ELSE "false"
TypeofC(v, ty) == IF v.t = "thrown" THEN "throw" ELSE IF v.t = ty THEN "true" ELSE "false"
AndThen(a, b) == IF a = "true" THEN b ELSE a

\* String.prototype.toLowerCase, token by token.
LowerTok(w) ==
    CASE w = "Quota" -> "quota"
      [] w = "QUOTA" -> "quota"
      [] w = "Exceeded" -> "exceeded"
      [] w = "EXHAUSTED" -> "exhausted"
      [] w = "Error:" -> "error:"
      [] w = "TypeError:" -> "typeerror:"
      [] w = "SyntaxError:" -> "syntaxerror:"
      [] w = "[object Object]" -> "[object object]"
      [] OTHER -> w
toLowerCase(s) == [k \in 1..Len(s) |-> LowerTok(s[k])]

\* String.prototype.toUpperCase, token by token.
UpperTok(w) ==
    CASE w = "resource_exhausted" -> "RESOURCE_EXHAUSTED"
      [] w = "Resource_Exhausted" -> "RESOURCE_EXHAUSTED"
      [] w = "unavailable" -> "UNAVAILABLE"
      [] OTHER -> w
toUpperCase(s) == [k \in 1..Len(s) |-> UpperTok(s[k])]

\* s.includes(w)
includes(s, w) == \E k \in 1..Len(s) : s[k] = w

\* String(v) throws a TypeError on an object it cannot convert.
StringThrows(v) == v.t = "object" /\ ~v.printable

\* String(v), where it does not throw.
String(v) ==
    CASE v.t = "undefined" -> <<"undefined">>
      [] v.t = "null" -> <<"null">>
      [] v.t = "number" -> <<ToString(v.n)>>
      [] v.t = "string" -> v.s
      [] OTHER -> v.str

\* ------------------------------------------------------- parseGeminiError

\* Line 334: error && error.error && typeof error.error.message === 'string'
IsGeminiShape(error) ==
    AndThen(TruthyC(error),
        AndThen(TruthyC(Get(error, "error")),
                TypeofC(Get(Get(error, "error"), "message"), "string")))

\* Line 343: error && typeof error.message === 'string'
IsJsShape(error) ==
    AndThen(TruthyC(error), TypeofC(Get(error, "message"), "string"))

\* Every 429 taken for quota exhaustion.
QuotaRuleAny429(statusCode, detailedErrorMessage, geminiErrorStatus) ==
    \/ statusCode = Num(429)
    \/ /\ ~Truthy(statusCode)
       /\ includes(detailedErrorMessage, "quota")
       /\ \/ includes(detailedErrorMessage, "exceeded")
          \/ includes(detailedErrorMessage, "exhausted")
    \/ geminiErrorStatus = Str(<<"RESOURCE_EXHAUSTED">>)

\* Lines 353-357: isQuotaExhaustedError
QuotaRule(statusCode, detailedErrorMessage, geminiErrorStatus) ==
    \/ /\ statusCode = Num(429)
       /\ \/ includes(detailedErrorMessage, "quota")
          \/ geminiErrorStatus = Str(<<"RESOURCE_EXHAUSTED">>)
    \/ /\ ~Truthy(statusCode)
       /\ includes(detailedErrorMessage, "quota")
       /\ \/ includes(detailedErrorMessage, "exceeded")
          \/ includes(detailedErrorMessage, "exhausted")
    \/ geminiErrorStatus = Str(<<"RESOURCE_EXHAUSTED">>)

\* Line 359: isRateLimitErrorForRetry
RateLimitRule(statusCode, isQuotaExhaustedError) ==
    statusCode = Num(429) /\ ~isQuotaExhaustedError

parseGeminiError(error) ==
    LET inner == Get(error, "error")
        isGeminiShape == IsGeminiShape(error)
        isJsShape == IsJsShape(error)
        \* line 332 converts the value before any test of its shape
        raised == StringThrows(error)
                  \/ isGeminiShape = "throw"
                  \/ (isGeminiShape = "false" /\ isJsShape = "throw")
        detailedErrorMessage ==
            IF isGeminiShape = "true" THEN toLowerCase(Get(inner, "message").s)
            ELSE IF isJsShape = "true" THEN toLowerCase(Get(error, "message").s)
            ELSE toLowerCase(String(error))
        displayErrorMsg ==
            IF isGeminiShape = "true" THEN Get(inner, "message").s
            ELSE IF isJsShape = "true" THEN Get(error, "message").s
            ELSE String(error)
        statusCode ==
            IF isGeminiShape = "true"
            THEN IF Get(inner, "code").t = "number" THEN Get(inner, "code") ELSE Undefined
            ELSE IF isJsShape = "true"
            THEN IF Truthy(Get(error, "status")) /\ Get(error, "status").t = "number"
                 THEN Get(error, "status") ELSE Undefined
            ELSE Undefined
        geminiErrorStatus ==
            IF isGeminiShape = "true" /\ Get(inner, "status").t = "string"
            THEN Str(toUpperCase(Get(inner, "status").s))
            ELSE Undefined
        isQuotaExhaustedError == QuotaRule(statusCode, detailedErrorMessage, geminiErrorStatus)
        isRateLimitErrorForRetry == RateLimitRule(statusCode, isQuotaExhaustedError)
    IN  IF raised
        THEN [raised |-> TRUE]
        ELSE [raised |-> FALSE,
              detailedErrorMessage |-> detailedErrorMessage,
              statusCode |-> statusCode,
              geminiErrorStatus |-> geminiErrorStatus,
              isQuotaExhaustedError |-> isQuotaExhaustedError,
              isRateLimitErrorForRetry |-> isRateLimitErrorForRetry,
              displayErrorMsg |-> displayErrorMsg]

\* ---------------------------------------------------------- error values

MsgTokens == {"quota", "QUOTA", "exceeded", "EXHAUSTED", "limit"}

RECURSIVE SeqsUpTo(_, _)
SeqsUpTo(S, n) ==
    IF n = 0 THEN {<<>>}
    ELSE LET shorter == SeqsUpTo(S, n - 1)
         IN  shorter \cup {Append(s, w) : s \in {q \in shorter : Len(q) = n - 1}, w \in S}

Messages == SeqsUpTo(MsgTokens, MaxMsgLen)

\* What error.error.code and error.status can hold (429 is the rate/quota code).
CodeValues == {Undefined, Num(429), Num(0), Num(500), Str(<<"429">>)}
\* What error.error.status can hold.
StatusValues == {Undefined, Str(<<"RESOURCE_EXHAUSTED">>), Str(<<"resource_exhausted">>),
                 Str(<<"UNAVAILABLE">>), Num(8)}

\* { error: { message, code, status } }: the provider's structured error.
GeminiError(m, c, s) ==
    Obj([NoProps EXCEPT !.error =
            Obj([NoProps EXCEPT !.message = Str(m), !.code = c, !.status = s],
                <<"[object Object]">>)],
        <<"[object Object]">>)

\* An Error instance (message, optional status), possibly with a stray
\* .error property that is no structured error.
JsError(m, st, e) ==
    Obj([NoProps EXCEPT !.message = Str(m), !.status = st, !.error = e],
        <<"Error:">> \o m)

GeminiErrors == {GeminiError(m, c, s) : m \in Messages, c \in CodeValues, s \in StatusValues}
JsErrors == {JsError(m, st, e) : m \in Messages, st \in CodeValues,
                                 e \in {Undefined, Null, Str(<<"limit">>)}}
\* Primitives, null, undefined and objects with no string message.
OtherErrors ==
    {Undefined, Null, Num(429), Num(0)}
    \cup {Str(m) : m \in Messages}
    \cup {Obj(NoProps, <<"[object Object]">>),
          Obj([NoProps EXCEPT !.message = Num(429), !.status = Num(429)], <<"[object Object]">>),
          Obj([NoProps EXCEPT !.error = Obj(NoProps, <<"[object Object]">>)], <<"[object Object]">>),
          Obj([NoProps EXCEPT !.error = Obj([NoProps EXCEPT !.code = Num(429)], <<"[object Object]">>),
                              !.status = Num(429)],
              <<"[object Object]">>),
          BareObj(NoProps),
          BareObj([NoProps EXCEPT !.message = Str(<<"quota", "exceeded">>)])}

ErrorValues == GeminiErrors \cup JsErrors \cup OtherErrors

\* ------------------------------------------------------- response payloads

\* The three-backquote marker that opens and closes a fenced block.
FENCE == "<fence>"
WhiteTokens == {" ", "\n"}
\* Tokens made of word characters only (matched by \w).
WordTokens == {"json", "null", "42"} \cup MsgTokens
\* JSON documents: objects by the required fields they carry, null, a number.
JsonDocs == {"{full}", "{noExample}", "{noMeaning}", "{}", "null", "42"}

RECURSIVE TrimLeft(_)
TrimLeft(s) == IF s /= <<>> /\ Head(s) \in WhiteTokens THEN TrimLeft(Tail(s)) ELSE s
RECURSIVE TrimRight(_)
TrimRight(s) ==
    IF s /= <<>> /\ s[Len(s)] \in WhiteTokens THEN TrimRight(SubSeq(s, 1, Len(s) - 1)) ELSE s
\* String.prototype.trim
trim(s) == TrimRight(TrimLeft(s))

RECURSIVE DropWord(_)
DropWord(s) == IF s /= <<>> /\ Head(s) \in WordTokens THEN DropWord(Tail(s)) ELSE s

\* jsonStr.match(fenceRegex), /^<fence>(\w*)?\s*\n?(.*?)\n?\s*<fence>$/s: group 2 when the
\* pattern matches, and whether it matches.  \w* is greedy, so it takes every
\* leading word token; \s* takes the whitespace after it; the lazy group
\* stops before the whitespace that precedes the closing fence.
fenceRegex(s) ==
    IF Len(s) >= 2 /\ s[1] = FENCE /\ s[Len(s)] = FENCE
    THEN [matched |-> TRUE,
          group2 |-> TrimRight(TrimLeft(DropWord(SubSeq(s, 2, Len(s) - 1))))]
    ELSE [matched |-> FALSE, group2 |-> <<>>]

\* Lines 405-410: the trimmed response text (empty when absent), fence stripped.
StripFence(text) ==
    LET jsonStr == trim(text)
        match == fenceRegex(jsonStr)
    IN  IF match.matched /\ match.group2 /= <<>> THEN trim(match.group2) ELSE jsonStr

\* JSON.parse: one document, whitespace around it allowed; else a SyntaxError.
JSONparse(s) ==
    LET body == trim(s)
    IN  IF Len(body) = 1 /\ body[1] \in JsonDocs
        THEN [ok |-> TRUE, doc |-> body[1]]
        ELSE [ok |-> FALSE, doc |-> "none"]

\* The SyntaxError JSON.parse throws; engines differ on whether the message
\* quotes the offending text.
SyntaxErrorOf(s, quotesText) ==
    LET m == IF quotesText THEN <<"unexpected">> \o s ELSE <<"unexpected">>
    IN  Obj([NoProps EXCEPT !.message = Str(m)], <<"SyntaxError:">> \o m)

\* The TypeError of a property read on null (data.partOfSpeech, ai.models).
NullReadError ==
    Obj([NoProps EXCEPT !.message = Str(<<"cannot read properties of null">>)],
        <<"TypeError:", "cannot read properties of null">>)

\* The essential fields that are truthy in a decoded document.
TruthyFields(doc) ==
    CASE doc = "{full}" -> {"partOfSpeech", "meaning", "exampleSentence"}
      [] doc = "{noExample}" -> {"partOfSpeech", "meaning"}
      [] doc = "{noMeaning}" -> {"partOfSpeech", "exampleSentence"}
      [] OTHER -> {}

\* The test of line 414 without its exampleSentence part.
MissingFieldsExampleUnchecked(doc) ==
    \/ "partOfSpeech" \notin TruthyFields(doc)
    \/ "meaning" \notin TruthyFields(doc)

\* !data.partOfSpeech || !data.meaning || !data.exampleSentence (line 414)
MissingEssentialFields(doc) ==
    \/ "partOfSpeech" \notin TruthyFields(doc)
    \/ "meaning" \notin TruthyFields(doc)
    \/ "exampleSentence" \notin TruthyFields(doc)

\* Texts the provider answers a word-details request with.
ResponseTexts ==
    { <<"{full}">>,
      <<FENCE, "json", "\n", "{full}", "\n", FENCE>>,
      <<"{noExample}">>,
      <<" ", "{noMeaning}", "\n">>,
      <<"null">>,
      <<"quota", "exceeded">>,
      <<>> }

\* Shapes of a generateImages response: image bytes present, no image, an
\* image without bytes.
ImageResponses == {"bytes", "noImages", "noBytes"}
\* The test of line 689 without its imageBytes part.
HasImageBytesUnchecked(r) == r /= "noImages"
\* generatedImages non-empty and generatedImages[0].image?.imageBytes truthy
HasImageBytes(r) == r = "bytes"

\* Errors the provider call rejects with.
ProviderErrors ==
    { JsError(<<"quota", "exceeded">>, Num(429), Undefined),
      JsError(<<"QUOTA", "EXHAUSTED">>, Undefined, Undefined),
      GeminiError(<<"limit">>, Num(429), Str(<<"resource_exhausted">>)),
      JsError(<<"limit">>, Num(429), Undefined),
      JsError(<<"limit">>, Num(500), Undefined),
      Str(<<"limit">>) }

\* ------------------------------------------------------------------ state

Invs == 1..NumInv
Kinds == {"word", "image"}
RetryChoices == (0 - 1)..MaxRetries
\* The initialDelay defaults of the two executors.
DefaultWordDelay == 7000
DefaultImageDelay == 8000
DefaultDelay(k) == IF k = "word" THEN DefaultWordDelay ELSE DefaultImageDelay
\* The retry policies callers pass: any retry count with the executor's
\* default delay, and a word lookup with two retries starting at one second.
Policies ==
    {[kind |-> k, retries |-> r, initialDelay |-> DefaultDelay(k)] : k \in Kinds, r \in RetryChoices}
    \cup {[kind |-> "word", retries |-> 2, initialDelay |-> 1000]}
\* Invocation 1 is followed through every policy; the invocations that
\* overlap with it (its siblings) are single-attempt word lookups.
SiblingPolicies == {[kind |-> "word", retries |-> 0, initialDelay |-> DefaultWordDelay]}
PoliciesOf(p) == IF p = 1 THEN Policies ELSE SiblingPolicies
GEMINI_QUOTA_COOLDOWN_MS == 900000

VARIABLES
    ai,                               \* the client is configured (ai /= null)
    isCurrentlyGeminiQuotaExhausted,  \* the cooldown flag
    quotaCooldownTimeoutId,           \* 0 is null
    timers,                           \* pending setTimeout callbacks of the cooldown
    nextTimerId,                      \* the id window.setTimeout hands out next
    cooldownLog,                      \* the cooldown's own toasts, in order
    globalLoading,                    \* the app's loading flag
    inv,                              \* the executor invocations
    chat,                             \* the tutor chat screen
    errIn,                            \* classifier: the value to classify
    cls,                              \* classifier: its result
    payload,                          \* decoding: the response text to decode
    decoded,                          \* decoding: its result
    bulk                              \* the bulk import of selected words

vars == <<ai, isCurrentlyGeminiQuotaExhausted, quotaCooldownTimeoutId, timers,
          nextTimerId, cooldownLog, globalLoading, inv, chat, errIn, cls,
          payload, decoded, bulk>>
cooldownVars == <<isCurrentlyGeminiQuotaExhausted, quotaCooldownTimeoutId, timers,
                  nextTimerId, cooldownLog>>
\* The variables of the parts that are followed on their own.
classifyVars == <<errIn, cls, payload, decoded, bulk>>

NoClass == [raised |-> FALSE, none |-> TRUE]
NoPayload == [fenced |-> FALSE, text |-> <<>>]
NotDecoded == [ok |-> FALSE, doc |-> "pending"]
\* No bulk import: selected is selectedWords.size, tasks the per-word promises
\* of processBatch, i the batch index, isProcessing the progress flag.
NoBulk ==
    [pc |-> "idle", selected |-> 0, total |-> 0, i |-> 0, tasks |-> <<>>,
     successCount |-> 0, failCount |-> 0, isProcessing |-> FALSE, toast |-> "none"]

IdleInv ==
    [pc |-> "idle", kind |-> "word", retries |-> 0, initialDelay |-> 0, i |-> 0,
     currentDelay |-> 0, calls |-> 0, sleeps |-> <<>>, result |-> "none",
     exit |-> "none", toasts |-> 0, hist |-> "none", last |-> "none", lastErr |-> "none",
     pending |-> 0, blind |-> 0, toastType |-> "none",
     doc |-> "none"]

InitBase ==
    /\ ai \in BOOLEAN
    /\ isCurrentlyGeminiQuotaExhausted = FALSE
    /\ quotaCooldownTimeoutId = 0
    /\ timers = {}
    /\ nextTimerId = 1
    /\ cooldownLog = <<>>
    /\ globalLoading = FALSE
    /\ inv = [p \in Invs |-> IdleInv]
    /\ cls = NoClass
    /\ decoded = NotDecoded

\* The tutor chat screen: handle is the conversation handle held in the chat
\* state (FALSE for null) and gen the number of the conversation it belongs
\* to; messages is the message list; sendGen and accumulatedText belong to
\* the send in flight; toasts counts that send's error toasts, calls its
\* sendMessageStream calls; before is the message list as the send was
\* submitted, sends the number of messages submitted, chunks the number of
\* fragments the streams have delivered, outcome how the newest send ended,
\* fragments the chunk texts its stream has delivered, lastErr the class of
\* the error it failed with, refused why the newest submit since was turned
\* away.
ChatMessage(role, text) == [role |-> role, text |-> text]
Greeting == ChatMessage("model", <<"greeting">>)
NewChatGreeting == ChatMessage("model", <<"newchat">>)
Placeholder == ChatMessage("model", <<"...">>)

NoChat ==
    [handle |-> FALSE, gen |-> 0, pc |-> "idle", toasts |-> 0, messages |-> <<>>,
     sendGen |-> 0, accumulatedText |-> <<>>, chunks |-> 0, calls |-> 0,
     before |-> <<>>, sends |-> 0, lastToast |-> "none", outcome |-> "none",
     fragments |-> <<>>, lastErr |-> "none", refused |-> "none"]

\* The chat screen is not mounted.
Init ==
    /\ InitBase
    /\ chat = NoChat
    /\ errIn = Undefined
    /\ payload = NoPayload
    /\ bulk = NoBulk

\* The chat screen is mounted: initializeChat creates a conversation handle
\* when a client is configured.
InitChat ==
    /\ InitBase
    /\ chat = [NoChat EXCEPT !.handle = ai, !.gen = IF ai THEN 1 ELSE 0,
                             !.messages = <<Greeting>>]
    /\ errIn = Undefined
    /\ payload = NoPayload
    /\ bulk = NoBulk

\* --------------------------------------------------------------- cooldown

\* Activation that does not look at the flag.
AlreadyExhaustedIgnored == FALSE

\* The test of line 305.
AlreadyExhausted == isCurrentlyGeminiQuotaExhausted

\* An activation that toasts and schedules the timer but leaves the shared
\* flag unset.
ActivateWithoutFlag(via) ==
    /\ cooldownLog' = Append(cooldownLog, [type |-> "error", via |-> via])
    /\ timers' = {t \in timers : quotaCooldownTimeoutId = 0 \/ t.id /= quotaCooldownTimeoutId}
                 \cup {[id |-> nextTimerId, via |-> via, delay |-> GEMINI_QUOTA_COOLDOWN_MS]}
    /\ quotaCooldownTimeoutId' = nextTimerId
    /\ nextTimerId' = nextTimerId + 1
    /\ UNCHANGED isCurrentlyGeminiQuotaExhausted

\* An activation that, called while the flag is set, hands the pending
\* timer the later caller's callback and label.
ActivateRebindsCallback(via) ==
    IF ~AlreadyExhausted
    THEN /\ isCurrentlyGeminiQuotaExhausted' = TRUE
         /\ cooldownLog' = Append(cooldownLog, [type |-> "error", via |-> via])
         /\ timers' = {t \in timers : quotaCooldownTimeoutId = 0 \/ t.id /= quotaCooldownTimeoutId}
                      \cup {[id |-> nextTimerId, via |-> via, delay |-> GEMINI_QUOTA_COOLDOWN_MS]}
         /\ quotaCooldownTimeoutId' = nextTimerId
         /\ nextTimerId' = nextTimerId + 1
    ELSE /\ timers' = {[t EXCEPT !.via = via] : t \in timers}
         /\ UNCHANGED <<isCurrentlyGeminiQuotaExhausted, quotaCooldownTimeoutId, nextTimerId,
                        cooldownLog>>

\* setGeminiQuotaExhaustedCooldown(addToast, featureName) called by invocation
\* via: a no-op while the flag is set; else set the flag, toast at "error"
\* severity, clear a timer still referenced and schedule the one-shot timer.
setGeminiQuotaExhaustedCooldown(via) ==
    IF ~AlreadyExhausted
    THEN /\ isCurrentlyGeminiQuotaExhausted' = TRUE
         /\ cooldownLog' = Append(cooldownLog, [type |-> "error", via |-> via])
         /\ timers' = {t \in timers : quotaCooldownTimeoutId = 0 \/ t.id /= quotaCooldownTimeoutId}
                      \cup {[id |-> nextTimerId, via |-> via, delay |-> GEMINI_QUOTA_COOLDOWN_MS]}
         /\ quotaCooldownTimeoutId' = nextTimerId
         /\ nextTimerId' = nextTimerId + 1
    ELSE UNCHANGED cooldownVars

\* The timer callback leaving the timer handle set.
TimerFireKeepsHandle(t) ==
    /\ t \in timers
    /\ timers' = timers \ {t}
    /\ isCurrentlyGeminiQuotaExhausted' = FALSE
    /\ cooldownLog' = Append(cooldownLog, [type |-> "info", via |-> t.via])
    /\ UNCHANGED <<ai, quotaCooldownTimeoutId, nextTimerId, globalLoading, inv, chat, classifyVars>>

\* The timer callback leaving the cooldown flag set.
TimerFireKeepsFlag(t) ==
    /\ t \in timers
    /\ timers' = timers \ {t}
    /\ quotaCooldownTimeoutId' = 0
    /\ cooldownLog' = Append(cooldownLog, [type |-> "info", via |-> t.via])
    /\ UNCHANGED <<ai, isCurrentlyGeminiQuotaExhausted, nextTimerId, globalLoading, inv,
                   chat, classifyVars>>

\* The timer callback scheduled at line 319.
TimerFire(t) ==
    /\ t \in timers
    /\ timers' = timers \ {t}
    /\ isCurrentlyGeminiQuotaExhausted' = FALSE
    /\ quotaCooldownTimeoutId' = 0
    /\ cooldownLog' = Append(cooldownLog, [type |-> "info", via |-> t.via])
    /\ UNCHANGED <<ai, nextTimerId, globalLoading, inv, chat, classifyVars>>

\* Saving a key that also ends a running cooldown.
SaveApiKeyEndsCooldown(valid) ==
    /\ ai' = valid
    /\ isCurrentlyGeminiQuotaExhausted' = FALSE
    /\ UNCHANGED <<quotaCooldownTimeoutId, timers, nextTimerId, cooldownLog, globalLoading,
                   inv, chat, classifyVars>>

\* The settings form saves an API key: initializeAI makes a client or fails,
\* an empty key removes the client.
SaveApiKey(valid) ==
    /\ ai' = valid
    /\ UNCHANGED <<cooldownVars, globalLoading, inv, chat, classifyVars>>

\* --------------------------------------------------------------- executor

\* A return statement: the invocation is over with this result.
Returned(rec, res, exit) == [rec EXCEPT !.pc = "done", !.result = res, !.exit = exit]

\* addToast called n times by the invocation.
Toast(rec, n) == [rec EXCEPT !.toasts = @ + n]

\* addToast(message, type): type is the severity of the newest toast.
Notify(rec, type) == [Toast(rec, 1) EXCEPT !.toastType = type]

\* The backoff promise not awaited: the loop goes straight on to its next
\* provider call.
SleepNotAwaited(rec) ==
    [rec EXCEPT !.pc = "await", !.sleeps = Append(@, rec.currentDelay), !.i = @ + 1,
                !.calls = @ + 1, !.pending = @ + 1,
                !.blind = IF isCurrentlyGeminiQuotaExhausted THEN @ + 1 ELSE @]

\* The awaited provider call has settled (resolved or rejected).
Settled(rec) == [rec EXCEPT !.pending = @ - 1]

\* await new Promise(resolve => setTimeout(resolve, currentDelay))
Sleep(rec) == [rec EXCEPT !.pc = "sleep", !.sleeps = Append(@, rec.currentDelay)]

\* Bookkeeping of what the attempts came to: last is the outcome of the
\* newest attempt, hist tells whether the failed attempts so far were all
\* responses with missing data, all rejected provider calls, or a mix.
Attempted(rec, what) ==
    [rec EXCEPT !.last = what,
                !.hist = IF what = "ok" THEN @
                         ELSE IF what = "missing" /\ @ \in {"none", "allMissing"} THEN "allMissing"
                         ELSE IF what = "rejected" /\ @ \in {"none", "allRejected"} THEN "allRejected"
                         ELSE "mixed"]

\* The delay left unchanged after a sleep.
NextDelaySame(d) == d

\* currentDelay *= 2 (lines 419, 446)
NextDelay(d) == d * 2

\* The cooldown check left out.
CooldownNeverBlocks == FALSE

\* The check of line 370 / 669.
CooldownBlocks == isCurrentlyGeminiQuotaExhausted

\* A quota error retried like any other error.
QuotaNeverAborts(c) == FALSE

\* The test of line 431 / 707: a quota error ends the invocation.
QuotaAborts(c) == c.isQuotaExhaustedError

\* How parseGeminiError's result steers the catch block.
ErrorClass(c) ==
    IF c.isQuotaExhaustedError THEN "quota"
    ELSE IF c.isRateLimitErrorForRetry THEN "rate"
    ELSE "generic"

\* The catch block (lines 428-455, 704-731) with the finally that follows a
\* return; what names where the error came from.
HandleError(p, rec, error, what) ==
    LET c == parseGeminiError(error)
        seen == Attempted(rec, what)
    IN  IF c.raised
        THEN /\ inv' = [inv EXCEPT ![p] = Returned(seen, "raised", "raised")]
             /\ globalLoading' = FALSE
             /\ UNCHANGED cooldownVars
        ELSE LET known == [seen EXCEPT !.lastErr = ErrorClass(c)]
             IN  IF QuotaAborts(c)
                 THEN /\ setGeminiQuotaExhaustedCooldown(p)
                      /\ inv' = [inv EXCEPT ![p] =
                            Returned((IF AlreadyExhausted THEN known ELSE Notify(known, "error")),
                                     "null", "quota")]
                      /\ globalLoading' = FALSE
                 ELSE IF rec.i < rec.retries
                 THEN /\ inv' = [inv EXCEPT ![p] = Sleep(Notify(known, "warning"))]
                      /\ UNCHANGED <<cooldownVars, globalLoading>>
                 ELSE /\ inv' = [inv EXCEPT ![p] = Returned(Notify(known, "error"), "null", "exhausted")]
                      /\ globalLoading' = FALSE
                      /\ UNCHANGED cooldownVars

\* A provider call started: blind counts the calls started under a set
\* cooldown flag.
Calling(rec) ==
    [rec EXCEPT !.pc = "await", !.calls = @ + 1, !.pending = @ + 1,
                !.blind = IF isCurrentlyGeminiQuotaExhausted THEN @ + 1 ELSE @]

\* A loop that tests the cooldown flag again before every attempt.
LoopTopRechecks(p, rec, loading) ==
    IF rec.i <= rec.retries
    THEN IF isCurrentlyGeminiQuotaExhausted
         THEN /\ inv' = [inv EXCEPT ![p] = Returned(Notify(rec, "warning"), "null", "cooldown")]
              /\ globalLoading' = FALSE
              /\ UNCHANGED cooldownVars
         ELSE IF ai
         THEN /\ inv' = [inv EXCEPT ![p] = Calling(rec)]
              /\ globalLoading' = loading
              /\ UNCHANGED cooldownVars
         ELSE HandleError(p, rec, NullReadError, "noclient")
    ELSE /\ inv' = [inv EXCEPT ![p] = Returned(Notify(rec, "error"), "null", "postLoop")]
         /\ globalLoading' = FALSE
         /\ UNCHANGED cooldownVars

\* A loop that runs while i < retries.
LoopTopExclusive(p, rec, loading) ==
    IF rec.i < rec.retries
    THEN IF ai
         THEN /\ inv' = [inv EXCEPT ![p] = Calling(rec)]
              /\ globalLoading' = loading
              /\ UNCHANGED cooldownVars
         ELSE HandleError(p, rec, NullReadError, "noclient")
    ELSE /\ inv' = [inv EXCEPT ![p] = Returned(Notify(rec, "error"), "null", "postLoop")]
         /\ globalLoading' = FALSE
         /\ UNCHANGED cooldownVars

\* The head of the for loop and the provider call of the try block; loading
\* is the loading flag as the loop is entered.
LoopTop(p, rec, loading) ==
    IF rec.i <= rec.retries
    THEN IF ai
         THEN /\ inv' = [inv EXCEPT ![p] = Calling(rec)]
              /\ globalLoading' = loading
              /\ UNCHANGED cooldownVars
         ELSE HandleError(p, rec, NullReadError, "noclient")
    ELSE /\ inv' = [inv EXCEPT ![p] = Returned(Notify(rec, "error"), "null", "postLoop")]
         /\ globalLoading' = FALSE
         /\ UNCHANGED cooldownVars

\* The two pre-checks in the other order: the cooldown first, the client second.
InvokeCooldownFirst(p, policy) ==
    /\ inv[p].pc = "idle"
    /\ \A q \in Invs : (1 < q /\ q < p) => inv[q].pc /= "idle"
    /\ LET rec == [IdleInv EXCEPT !.kind = policy.kind, !.retries = policy.retries,
                                  !.initialDelay = policy.initialDelay,
                                  !.currentDelay = policy.initialDelay]
       IN  IF CooldownBlocks
           THEN /\ inv' = [inv EXCEPT ![p] = Returned(Notify(rec, "warning"), "null", "cooldown")]
                /\ UNCHANGED <<cooldownVars, globalLoading>>
           ELSE IF ~ai
           THEN /\ inv' = [inv EXCEPT ![p] = Returned(Notify(rec, "warning"), "null", "noCredential")]
                /\ UNCHANGED <<cooldownVars, globalLoading>>
           ELSE LoopTop(p, rec, TRUE)
    /\ UNCHANGED <<ai, chat, classifyVars>>

\* generateWordDetailsWithGemini / generateImageForWordWithGemini is called:
\* the pre-checks, then the first provider call.  The siblings are
\* interchangeable, so they start in the order of their numbers.
Invoke(p, policy) ==
    /\ inv[p].pc = "idle"
    /\ \A q \in Invs : (1 < q /\ q < p) => inv[q].pc /= "idle"
    /\ LET rec == [IdleInv EXCEPT !.kind = policy.kind, !.retries = policy.retries,
                                  !.initialDelay = policy.initialDelay,
                                  !.currentDelay = policy.initialDelay]
       IN  IF ~ai
           THEN /\ inv' = [inv EXCEPT ![p] = Returned(Notify(rec, "warning"), "null", "noCredential")]
                /\ UNCHANGED <<cooldownVars, globalLoading>>
           ELSE IF CooldownBlocks
           THEN /\ inv' = [inv EXCEPT ![p] = Returned(Notify(rec, "warning"), "null", "cooldown")]
                /\ UNCHANGED <<cooldownVars, globalLoading>>
           ELSE LoopTop(p, rec, TRUE)
    /\ UNCHANGED <<ai, chat, classifyVars>>

\* The missing-data branch sleeping after the last attempt too.
IncompleteAlwaysSleeps(p, rec, lastResult, lastExit) ==
    /\ inv' = [inv EXCEPT ![p] = Sleep(Notify(rec, "warning"))]
    /\ UNCHANGED <<cooldownVars, globalLoading>>

\* The missing-data branch giving up one attempt early.
IncompleteOffByOne(p, rec, lastResult, lastExit) ==
    IF rec.i < rec.retries - 1
    THEN /\ inv' = [inv EXCEPT ![p] = Sleep(Notify(rec, "warning"))]
         /\ UNCHANGED <<cooldownVars, globalLoading>>
    ELSE /\ inv' = [inv EXCEPT ![p] = Returned(Notify(rec, "error"), lastResult, lastExit)]
         /\ globalLoading' = FALSE
         /\ UNCHANGED cooldownVars

\* The missing-data branch of both variants (lines 414-425, 692-703).
Incomplete(p, rec, lastResult, lastExit) ==
    IF rec.i < rec.retries
    THEN /\ inv' = [inv EXCEPT ![p] = Sleep(Notify(rec, "warning"))]
         /\ UNCHANGED <<cooldownVars, globalLoading>>
    ELSE /\ inv' = [inv EXCEPT ![p] = Returned(Notify(rec, "error"), lastResult, lastExit)]
         /\ globalLoading' = FALSE
         /\ UNCHANGED cooldownVars

\* generateContent resolves with this text (lines 405-426).
ResolveWord(p, text) ==
    /\ inv[p].pc = "await"
    /\ inv[p].kind = "word"
    /\ LET jsonStr == StripFence(text)
           data == JSONparse(jsonStr)
           rec == [Settled(inv[p]) EXCEPT !.doc = data.doc]
       IN  IF ~data.ok
           THEN \E quotesText \in BOOLEAN :
                    HandleError(p, rec, SyntaxErrorOf(jsonStr, quotesText), "badjson")
           ELSE IF data.doc = "null"
           THEN HandleError(p, rec, NullReadError, "nulldoc")
           ELSE IF MissingEssentialFields(data.doc)
           THEN Incomplete(p, Attempted(rec, "missing"), "fallback", "fallback")
           ELSE /\ inv' = [inv EXCEPT ![p] =
                      Returned(Attempted(rec, "ok"), "data", "success")]
                /\ globalLoading' = FALSE
                /\ UNCHANGED cooldownVars
    /\ UNCHANGED <<ai, chat, classifyVars>>

\* generateImages resolves with this response (lines 689-703).
ResolveImage(p, response) ==
    /\ inv[p].pc = "await"
    /\ inv[p].kind = "image"
    /\ LET rec == [Settled(inv[p]) EXCEPT !.doc = response]
       IN  IF HasImageBytes(response)
           THEN /\ inv' = [inv EXCEPT ![p] =
                      Returned(Notify(Attempted(rec, "ok"), "success"), "data", "success")]
                /\ globalLoading' = FALSE
                /\ UNCHANGED cooldownVars
           ELSE Incomplete(p, Attempted(rec, "missing"), "null", "exhausted")
    /\ UNCHANGED <<ai, chat, classifyVars>>

\* The provider call rejects with this error.
Reject(p, error) ==
    /\ inv[p].pc = "await"
    /\ HandleError(p, Settled(inv[p]), error, "rejected")
    /\ UNCHANGED <<ai, chat, classifyVars>>

\* The backoff sleep is over: double the delay, next iteration.
Wake(p) ==
    /\ inv[p].pc = "sleep"
    /\ LoopTop(p, [inv[p] EXCEPT !.currentDelay = NextDelay(@), !.i = @ + 1,
                              !.last = "none", !.lastErr = "none",
                              !.doc = "none"], globalLoading)
    /\ UNCHANGED <<ai, chat, classifyVars>>

\* ------------------------------------------------------------ tutor chat

\* What the user types into the input field.
UserInputs == {<<"q">>, <<" ", "q", " ">>, <<" ">>}

\* The text of a stream chunk: the SDK's text getter yields a string, or
\* undefined for a chunk without text parts.
ChunkTexts == {Str(<<"a">>), Str(<<"b">>), Undefined}

\* prev.slice(0, -1)
DropLast(list) == IF list = <<>> THEN <<>> ELSE SubSeq(list, 1, Len(list) - 1)

\* newMessages[newMessages.length - 1] = entry on a copy of the list; on an
\* empty list the assignment makes no element.
ReplaceLast(list, entry) ==
    IF list = <<>> THEN <<>> ELSE [list EXCEPT ![Len(list)] = entry]

\* The guard without its isLoading test.
RefusalIgnoresLoading(trimmedInput) ==
    IF trimmedInput = <<>> THEN "empty"
    ELSE IF ~chat.handle THEN "noHandle"
    ELSE "none"

\* Why the guard of line 2969 turns a submit away, by the order of its tests;
\* isLoading is set from the accepted submit to the finally block.
Refusal(trimmedInput) ==
    IF trimmedInput = <<>> THEN "empty"
    ELSE IF chat.pc \in {"sending", "streaming"} THEN "loading"
    ELSE IF ~chat.handle THEN "noHandle"
    ELSE "none"

\* handleSendMessage up to its first await: the guard, the user's message,
\* the loading flags and the one sendMessageStream call on the handle the
\* handler's render saw.  The form is rendered once a client is configured.
ChatSend(input) ==
    /\ ai \/ chat.handle
    /\ LET trimmedInput == trim(input)
       IN  IF Refusal(trimmedInput) /= "none"
           THEN /\ chat' = [chat EXCEPT !.refused = Refusal(trimmedInput)]
                /\ UNCHANGED globalLoading
           ELSE /\ chat.sends < MaxSends
                /\ chat' = [chat EXCEPT !.pc = "sending", !.toasts = 0, !.calls = 1,
                                        !.accumulatedText = <<>>, !.sendGen = chat.gen,
                                        !.before = chat.messages, !.sends = @ + 1,
                                        !.outcome = "none", !.fragments = <<>>,
                                        !.lastErr = "none", !.refused = "none",
                                        !.messages = Append(@, ChatMessage("user", trimmedInput))]
                /\ globalLoading' = TRUE
    /\ UNCHANGED <<ai, cooldownVars, inv, classifyVars>>

\* The submit button is enabled: not loading, and the input not blank.
SubmitEnabled(input) ==
    /\ chat.pc \notin {"sending", "streaming"}
    /\ trim(input) /= <<>>

\* sendMessageStream resolves with the stream: the placeholder entry is added.
ChatStreamOpen ==
    /\ chat.pc = "sending"
    /\ chat' = [chat EXCEPT !.pc = "streaming", !.messages = Append(@, Placeholder)]
    /\ UNCHANGED <<ai, cooldownVars, globalLoading, inv, classifyVars>>

\* One iteration of the for-await loop: accumulatedText += chunk.text, and
\* the last entry of the list is replaced by the accumulated text.
ChatChunk(text) ==
    /\ chat.pc = "streaming"
    /\ chat.chunks < MaxChunks
    /\ LET accumulated == chat.accumulatedText \o String(text)
       IN  chat' = [chat EXCEPT !.accumulatedText = accumulated, !.chunks = @ + 1,
                                !.fragments = Append(@, text),
                                !.messages = ReplaceLast(@, ChatMessage("model", accumulated))]
    /\ UNCHANGED <<ai, cooldownVars, globalLoading, inv, classifyVars>>

\* The stream ends normally; the finally block clears the loading flags.
ChatDone ==
    /\ chat.pc = "streaming"
    /\ chat' = [chat EXCEPT !.pc = "idle", !.outcome = "done"]
    /\ globalLoading' = FALSE
    /\ UNCHANGED <<ai, cooldownVars, inv, classifyVars>>

\* A failed send that is sent once more.
ChatFailRetriesOnce(error) ==
    /\ chat.pc \in {"sending", "streaming"}
    /\ IF chat.calls < 2
       THEN chat' = [chat EXCEPT !.pc = "sending", !.calls = @ + 1, !.toasts = @ + 1,
                                 !.lastToast = "error", !.messages = DropLast(@)]
       ELSE chat' = [chat EXCEPT !.pc = "idle", !.toasts = @ + 1, !.lastToast = "error",
                                 !.outcome = "failed", !.messages = DropLast(@)]
    /\ globalLoading' = FALSE
    /\ UNCHANGED <<ai, cooldownVars, inv, classifyVars>>

\* A failed send that activates the cooldown when its error is classified
\* quota-exhausted.
ChatFailActivatesCooldown(error) ==
    /\ chat.pc \in {"sending", "streaming"}
    /\ chat' = [chat EXCEPT !.pc = "idle", !.toasts = @ + 1, !.lastToast = "error",
                            !.outcome = "failed",
                            !.lastErr = ErrorClass(parseGeminiError(error)),
                            !.messages = DropLast(@)]
    /\ IF parseGeminiError(error).isQuotaExhaustedError
       THEN setGeminiQuotaExhaustedCooldown(0)
       ELSE UNCHANGED cooldownVars
    /\ globalLoading' = FALSE
    /\ UNCHANGED <<ai, inv, classifyVars>>

\* sendMessageStream rejects, or the stream fails: the catch block reads
\* displayErrorMsg from parseGeminiError, toasts it and drops the last entry
\* of the list; the finally block clears the loading flags.
ChatFail(error) ==
    /\ chat.pc \in {"sending", "streaming"}
    /\ IF parseGeminiError(error).raised
       THEN chat' = [chat EXCEPT !.pc = "idle", !.outcome = "raised"]
       ELSE chat' = [chat EXCEPT !.pc = "idle", !.toasts = @ + 1, !.lastToast = "error",
                                 !.outcome = "failed",
                                 !.lastErr = ErrorClass(parseGeminiError(error)),
                                 !.messages = DropLast(@)]
    /\ globalLoading' = FALSE
    /\ UNCHANGED <<ai, cooldownVars, inv, classifyVars>>

\* handleNewChat: initializeChat makes a new handle when a client is
\* configured (and leaves the old one otherwise), the list is reset to the
\* greeting and an info toast is shown.  A send in flight goes on: the button
\* is rendered whenever a client is configured, loading or not.
handleNewChat ==
    /\ ai
    /\ chat.gen < MaxChats
    /\ chat' = [chat EXCEPT !.handle = IF ai THEN TRUE ELSE @,
                            !.gen = IF ai THEN @ + 1 ELSE @,
                            !.messages = <<NewChatGreeting>>,
                            !.lastToast = "info"]
    /\ UNCHANGED <<ai, cooldownVars, globalLoading, inv, classifyVars>>

Next ==
    \/ \E p \in Invs : \E policy \in PoliciesOf(p) : Invoke(p, policy)
    \/ \E p \in Invs, text \in ResponseTexts : ResolveWord(p, text)
    \/ \E p \in Invs, response \in ImageResponses : ResolveImage(p, response)
    \/ \E p \in Invs, error \in ProviderErrors : Reject(p, error)
    \/ \E p \in Invs : Wake(p)
    \/ \E t \in timers : TimerFire(t)
    \/ \E valid \in BOOLEAN : SaveApiKey(valid)

Spec == Init /\ [][Next]_vars

\* The timer set by window.setTimeout fires once its delay has passed.
LiveSpec == Spec /\ \A id \in 1..NumInv : WF_vars(\E t \in timers : t.id = id /\ TimerFire(t))

\* No promise an invocation awaits stays pending for ever.  While a call is
\* awaited its rejection is possible, and while a sleep lasts its end is
\* possible, until the call settles in whatever way or the sleep ends: the
\* behaviours this fairness excludes are those in which a call or a sleep
\* never completes, and no outcome of a call is forced.
TransportError == Str(<<"limit">>)
AwaitedSettles == \E p \in Invs : Reject(p, TransportError) \/ Wake(p)

\* Termination is followed for invocation 1 under every policy beside one
\* sibling; further siblings stay idle here.
Pair == {p \in Invs : p <= 2}

NextExec ==
    \/ \E p \in Pair : \E policy \in PoliciesOf(p) : Invoke(p, policy)
    \/ \E p \in Pair, text \in ResponseTexts : ResolveWord(p, text)
    \/ \E p \in Pair, response \in ImageResponses : ResolveImage(p, response)
    \/ \E p \in Pair, error \in ProviderErrors : Reject(p, error)
    \/ \E p \in Pair : Wake(p)
    \/ \E t \in timers : TimerFire(t)
    \/ \E valid \in BOOLEAN : SaveApiKey(valid)

LiveExecSpec == Init /\ [][NextExec]_vars /\ WF_vars(AwaitedSettles)

\* The executors beside the tutor chat.  The chat adds its own loading and
\* stream states, so invocation 1 uses the short policies only, beside one
\* sibling; messages are submitted with the enabled button, the streams
\* carry no fragments and no new conversation is started (SpecTutor follows
\* those).
ShortPolicies ==
    {[kind |-> "word", retries |-> 1, initialDelay |-> DefaultWordDelay],
     [kind |-> "image", retries |-> 0, initialDelay |-> DefaultImageDelay]}
ShortPoliciesOf(p) == IF p = 1 THEN ShortPolicies ELSE SiblingPolicies

\* The tutor chat screen alone, the form submitted at any time and the API
\* key saved meanwhile.
NextTutor ==
    \/ \E input \in UserInputs : ChatSend(input)
    \/ ChatStreamOpen
    \/ \E text \in ChunkTexts : ChatChunk(text)
    \/ ChatDone
    \/ \E error \in ProviderErrors : ChatFail(error)
    \/ handleNewChat
    \/ \E valid \in BOOLEAN : SaveApiKey(valid)

SpecTutor == InitChat /\ [][NextTutor]_vars

NextChat ==
    \/ \E input \in UserInputs : SubmitEnabled(input) /\ ChatSend(input)
    \/ ChatStreamOpen
    \/ ChatDone
    \/ \E error \in ProviderErrors : ChatFail(error)
    \/ \E p \in Pair : \E policy \in ShortPoliciesOf(p) : Invoke(p, policy)
    \/ \E p \in Pair, text \in ResponseTexts : ResolveWord(p, text)
    \/ \E p \in Pair, response \in ImageResponses : ResolveImage(p, response)
    \/ \E p \in Pair, error \in ProviderErrors : Reject(p, error)
    \/ \E p \in Pair : Wake(p)
    \/ \E t \in timers : TimerFire(t)
    \/ \E valid \in BOOLEAN : SaveApiKey(valid)

SpecChat == InitChat /\ [][NextChat]_vars

\* ------------------------------------------------------------- classifier

\* parseGeminiError applied to each error value.
InitClassify ==
    /\ InitBase
    /\ chat = NoChat
    /\ errIn \in ErrorValues
    /\ payload = NoPayload
    /\ bulk = NoBulk

Classify ==
    /\ cls = NoClass
    /\ cls' = parseGeminiError(errIn)
    /\ UNCHANGED <<ai, cooldownVars, globalLoading, inv, chat, errIn, payload, decoded, bulk>>

NextClassify == Classify

SpecClassify == InitClassify /\ [][NextClassify]_vars

\* Lines 405-412 on their own: the response texts are a JSON document, bare
\* or in a fenced block with or without the language tag, with up to MaxPad
\* whitespace characters around the block and around the document, and texts
\* with an opening fence only.
Pads == SeqsUpTo(WhiteTokens, MaxPad)
LanguageTags == {<<>>, <<"json">>}

FencedPayload(x, tag, outerL, innerL, innerR, outerR) ==
    [fenced |-> TRUE, x |-> x, tag |-> tag, innerL |-> innerL,
     text |-> outerL \o <<FENCE>> \o tag \o innerL \o <<x>> \o innerR \o <<FENCE>> \o outerR]

BarePayload(body, outerL, outerR) ==
    [fenced |-> FALSE, text |-> outerL \o body \o outerR]

Payloads ==
    {FencedPayload(x, tag, oL, iL, iR, oR) :
        x \in JsonDocs, tag \in LanguageTags, oL \in Pads, iL \in Pads, iR \in Pads, oR \in Pads}
    \cup {BarePayload(body, oL, oR) :
        body \in {<<x>> : x \in JsonDocs} \cup {<<FENCE, x>> : x \in JsonDocs}
                 \cup {<<"quota", "exceeded">>, <<>>},
        oL \in Pads, oR \in Pads}

InitExtract ==
    /\ InitBase
    /\ chat = NoChat
    /\ errIn = Undefined
    /\ payload \in Payloads
    /\ bulk = NoBulk

Extract ==
    /\ decoded = NotDecoded
    /\ decoded' = JSONparse(StripFence(payload.text))
    /\ UNCHANGED <<ai, cooldownVars, globalLoading, inv, chat, errIn, cls, payload, bulk>>

NextExtract == Extract

SpecExtract == InitExtract /\ [][NextExtract]_vars

\* ------------------------------------------------------------ bulk import

\* const batchSize = 5 (line 2609)
batchSize == 5

\* The words of batch k (from 0), as positions in wordsToProcess:
\* wordsToProcess.slice(k * batchSize, k * batchSize + batchSize).
BatchWords(k) == {w \in 1..bulk.total : (w - 1) \div batchSize = k}

\* batches.length
NumBatches == (bulk.total + batchSize - 1) \div batchSize

\* processBatch(batch): batch.map starts every word's async function, each of
\* which calls generateWordDetailsWithGemini at once.
StartBatch(tasks, k) ==
    [w \in 1..bulk.total |->
        IF (w - 1) \div batchSize = k THEN "calling" ELSE tasks[w]]

\* A promise that settles as soon as one of the batch's promises has.
AnySettled(k) == \E w \in BatchWords(k) : bulk.tasks[w] \in {"ok", "fail"}

\* Promise.allSettled over the batch's promises (line 2563).
AllSettled(k) == \A w \in BatchWords(k) : bulk.tasks[w] \in {"ok", "fail"}

\* The import button is enabled with a client configured, no cooldown and
\* no import in progress (line 2810).
canUseAI == ai /\ ~isCurrentlyGeminiQuotaExhausted

\* handleAddSelectedWords up to its first await: the empty selection is
\* turned away with a warning; else the batches are cut and the first is
\* started.
handleAddSelectedWords ==
    /\ bulk.pc = "idle"
    /\ canUseAI
    /\ ~bulk.isProcessing
    /\ IF bulk.selected = 0
       THEN bulk' = [bulk EXCEPT !.pc = "turnedAway", !.toast = "warning"]
       ELSE bulk' = [bulk EXCEPT !.pc = "batch", !.total = bulk.selected, !.i = 0,
                                 !.isProcessing = TRUE,
                                 !.successCount = 0, !.failCount = 0,
                                 !.tasks = [w \in 1..bulk.selected |->
                                               IF (w - 1) \div batchSize = 0
                                               THEN "calling" ELSE "waiting"]]
    /\ UNCHANGED <<ai, cooldownVars, globalLoading, inv, chat, errIn, cls, payload, decoded>>

\* generateWordDetailsWithGemini settles for word w (lines 2566-2586): with
\* details the word is saved next; with null, or on a raise, the word's
\* promise fulfils with success false.
ExecutorSettles(w, outcome) ==
    /\ bulk.pc = "batch"
    /\ w \in 1..bulk.total
    /\ bulk.tasks[w] = "calling"
    /\ bulk' = [bulk EXCEPT !.tasks[w] = IF outcome = "details" THEN "saving" ELSE "fail"]
    /\ UNCHANGED <<ai, cooldownVars, globalLoading, inv, chat, errIn, cls, payload, decoded>>

\* handleSaveCustomWord settles for word w (lines 2580-2585).
SaveSettles(w, outcome) ==
    /\ bulk.pc = "batch"
    /\ w \in 1..bulk.total
    /\ bulk.tasks[w] = "saving"
    /\ bulk' = [bulk EXCEPT !.tasks[w] = IF outcome = "saved" THEN "ok" ELSE "fail"]
    /\ UNCHANGED <<ai, cooldownVars, globalLoading, inv, chat, errIn, cls, payload, decoded>>

\* processBatch resolves (lines 2590-2593, 2620-2639, 2651-2653): the results
\* are counted; before the last batch the inter-batch delay is awaited, after
\* it the import ends with its summary toast.  processBatch does not reject
\* (allSettled, and every word's function catches), so the catch block of
\* line 2641 is not entered.
BatchResolves ==
    /\ bulk.pc = "batch"
    /\ AllSettled(bulk.i)
    /\ LET succeeded == Cardinality({w \in BatchWords(bulk.i) : bulk.tasks[w] = "ok"})
           failed == Cardinality(BatchWords(bulk.i)) - succeeded
           successCount == bulk.successCount + succeeded
       IN  IF bulk.i < NumBatches - 1
           THEN bulk' = [bulk EXCEPT !.pc = "delay", !.successCount = successCount,
                                     !.failCount = @ + failed]
           ELSE bulk' = [bulk EXCEPT !.pc = "done", !.successCount = successCount,
                                     !.failCount = @ + failed,
                                     !.isProcessing = FALSE, !.selected = 0,
                                     !.toast = IF successCount > 0 THEN "success" ELSE "error"]
    /\ UNCHANGED <<ai, cooldownVars, globalLoading, inv, chat, errIn, cls, payload, decoded>>

\* The inter-batch delay of line 2638 is over: the next batch is started.
DelayOver ==
    /\ bulk.pc = "delay"
    /\ bulk' = [bulk EXCEPT !.pc = "batch", !.i = @ + 1,
                            !.tasks = StartBatch(@, bulk.i + 1)]
    /\ UNCHANGED <<ai, cooldownVars, globalLoading, inv, chat, errIn, cls, payload, decoded>>

ExecutorOutcomes == {"details", "null", "raised"}
SaveOutcomes == {"saved", "refused", "raised"}

InitImport ==
    /\ InitBase
    /\ chat = NoChat
    /\ errIn = Undefined
    /\ payload = NoPayload
    /\ bulk \in {[NoBulk EXCEPT !.selected = n] : n \in 0..MaxWords}

NextImport ==
    \/ handleAddSelectedWords
    \/ \E w \in 1..MaxWords, outcome \in ExecutorOutcomes : ExecutorSettles(w, outcome)
    \/ \E w \in 1..MaxWords, outcome \in SaveOutcomes : SaveSettles(w, outcome)
    \/ BatchResolves
    \/ DelayOver

SpecImport == InitImport /\ [][NextImport]_vars

\* ----------------------------------------------------------------- claims

\* C1: an invocation called while the cooldown flag is set returns null
\* (Failure) in that very step and has made no provider call, whatever its
\* retry policy and variant.
C1_CooldownShortCircuit ==
    [][\A p \in Invs :
          (isCurrentlyGeminiQuotaExhausted /\ inv[p].pc = "idle" /\ inv'[p].pc /= "idle")
          => (inv'[p].pc = "done" /\ inv'[p].result = "null" /\ inv'[p].calls = 0)]_vars

\* An invocation with two retries was short-circuited by a cooldown that is
\* still running.
C1_Witness ==
    \E p \in Invs :
        /\ inv[p].exit = "cooldown"
        /\ inv[p].retries = 2
        /\ inv[p].calls = 0
        /\ isCurrentlyGeminiQuotaExhausted

\* C2: the step that classifies an error as quota-exhausted ends the
\* invocation with null, adds no provider call and leaves the cooldown flag
\* set; a returned invocation never changes again (no further call); and a
\* quota error on the first attempt means the operation ran exactly once.
C2_QuotaAbort ==
    [][\A p \in Invs :
          /\ (inv[p].lastErr /= "quota" /\ inv'[p].lastErr = "quota")
             => /\ inv'[p].pc = "done"
                /\ inv'[p].result = "null"
                /\ inv'[p].calls = inv[p].calls
                /\ inv'[p].sleeps = inv[p].sleeps
                /\ isCurrentlyGeminiQuotaExhausted'
                /\ (inv[p].i = 0 /\ inv'[p].last = "rejected" => inv'[p].calls = 1)
          /\ inv[p].pc = "done" => inv'[p] = inv[p]]_vars

\* A provider call was rejected with a quota error on the last of three
\* attempts and the cooldown is running.
C2_Witness ==
    \E p \in Invs :
        /\ inv[p].exit = "quota"
        /\ inv[p].last = "rejected"
        /\ inv[p].retries = 2
        /\ inv[p].i = 2
        /\ inv[p].calls = 3
        /\ isCurrentlyGeminiQuotaExhausted

\* The "error" toasts and the "info" toasts of the cooldown.
LogCount(type) == Cardinality({k \in 1..Len(cooldownLog) : cooldownLog[k].type = type})

\* C3: activation is idempotent.  While the flag is set exactly one
\* deactivation timer is pending and exactly one more "activated" toast than
\* "resume" toasts has been shown; a step that starts and ends with the flag
\* set (any activate() call made meanwhile included) changes neither the
\* timer, nor its handle, nor the cooldown's toasts.
C3_IdempotentActivation ==
    /\ [](isCurrentlyGeminiQuotaExhausted
            => /\ Cardinality(timers) = 1
               /\ \A t \in timers : t.id = quotaCooldownTimeoutId
               /\ LogCount("error") = LogCount("info") + 1)
    /\ [][(isCurrentlyGeminiQuotaExhausted /\ isCurrentlyGeminiQuotaExhausted')
            => /\ timers' = timers
               /\ quotaCooldownTimeoutId' = quotaCooldownTimeoutId
               /\ cooldownLog' = cooldownLog]_vars

\* Two invocations ended on a quota error during one cooldown: the second
\* activate() found the flag set.
C3_Witness ==
    /\ \A p \in Invs : inv[p].exit = "quota"
    /\ isCurrentlyGeminiQuotaExhausted
    /\ Len(cooldownLog) = 1
    /\ Cardinality(timers) = 1

\* The cooldown's toasts alternate: "error" at activation, "info" at the end.
LogAlternates ==
    \A k \in 1..Len(cooldownLog) :
        cooldownLog[k].type = (IF k % 2 = 1 THEN "error" ELSE "info")

\* C4: every activation is followed by a state with the flag cleared and the
\* timer handle cleared, and by then exactly one "info" toast has followed
\* the activation's "error" toast.
C4_CooldownEnds ==
    /\ [](LogAlternates
          /\ (isCurrentlyGeminiQuotaExhausted <=> Len(cooldownLog) % 2 = 1)
          /\ (~isCurrentlyGeminiQuotaExhausted => quotaCooldownTimeoutId = 0 /\ timers = {}))
    /\ (isCurrentlyGeminiQuotaExhausted
          ~> (~isCurrentlyGeminiQuotaExhausted /\ quotaCooldownTimeoutId = 0))

\* A cooldown has been activated and has ended.
C4_Witness ==
    /\ Len(cooldownLog) = 2
    /\ cooldownLog[1].type = "error"
    /\ cooldownLog[2].type = "info"
    /\ ~isCurrentlyGeminiQuotaExhausted
    /\ quotaCooldownTimeoutId = 0

\* C5: the flag is cleared only by the callback of the pending timer (no
\* invocation, chat send or key change takes part in that step), and is set
\* only by an invocation ending on a quota-exhausted error, which schedules a
\* timer with a fresh id.
C5_FlagTransitions ==
    [][/\ (isCurrentlyGeminiQuotaExhausted /\ ~isCurrentlyGeminiQuotaExhausted')
          => /\ \E t \in timers : t.id = quotaCooldownTimeoutId /\ timers' = timers \ {t}
             /\ cooldownLog' = Append(cooldownLog,
                    [type |-> "info", via |-> cooldownLog[Len(cooldownLog)].via])
             /\ inv' = inv
             /\ chat' = chat
             /\ ai' = ai
       /\ (~isCurrentlyGeminiQuotaExhausted /\ isCurrentlyGeminiQuotaExhausted')
          => /\ \E p \in Invs :
                    /\ inv[p].pc \in {"await", "sleep"}
                    /\ inv'[p].exit = "quota"
                    /\ inv'[p].lastErr = "quota"
             /\ chat' = chat
             /\ quotaCooldownTimeoutId' = nextTimerId
             /\ timers' = {[id |-> nextTimerId, via |-> cooldownLog'[Len(cooldownLog')].via,
                            delay |-> GEMINI_QUOTA_COOLDOWN_MS]}
             /\ nextTimerId' > nextTimerId]_vars

\* After a first cooldown ended, a second quota error activated the cooldown
\* again with a new timer.
C5_Witness ==
    /\ Len(cooldownLog) = 3
    /\ isCurrentlyGeminiQuotaExhausted
    /\ quotaCooldownTimeoutId = 2
    /\ \E t \in timers : t.id = 2

RECURSIVE Pow2(_)
Pow2(n) == IF n = 0 THEN 1 ELSE 2 * Pow2(n - 1)

\* C6: the k-th backoff sleep of an invocation, the one before attempt k,
\* lasts initialDelay * 2^(k-1), whether a thrown error or a response with
\* missing data caused the retry; with retries = 2 and initialDelay = 1000,
\* two rejected calls and a complete answer make 3 provider calls, sleeps of
\* 1000 and 2000, and a Success.
C6_BackoffDelays ==
    \A p \in Invs :
        /\ \A k \in 1..Len(inv[p].sleeps) :
               inv[p].sleeps[k] = inv[p].initialDelay * Pow2(k - 1)
        /\ inv[p].pc = "await" => Len(inv[p].sleeps) = inv[p].i
        /\ inv[p].pc = "sleep" => Len(inv[p].sleeps) = inv[p].i + 1
        /\ (/\ inv[p].retries = 2
            /\ inv[p].initialDelay = 1000
            /\ inv[p].hist = "allRejected"
            /\ inv[p].i = 2
            /\ inv[p].last = "ok")
           => /\ inv[p].calls = 3
              /\ inv[p].sleeps = <<1000, 2000>>
              /\ inv[p].result = "data"

\* The policy of two retries from 1000 ms ran into two rejected calls and
\* then a complete answer.
C6_Witness ==
    \E p \in Invs :
        /\ inv[p].retries = 2
        /\ inv[p].initialDelay = 1000
        /\ inv[p].hist = "allRejected"
        /\ inv[p].exit = "success"
        /\ inv[p].calls = 3
        /\ inv[p].sleeps = <<1000, 2000>>

\* C7: a word-details invocation all of whose provider calls were answered
\* with a decodable text lacking a required field has called the provider
\* retries + 1 times when it returns, and returns the fallback that carries
\* the term only.
C7_DegradedFallback ==
    \A p \in Invs :
        (/\ inv[p].pc = "done"
         /\ inv[p].kind = "word"
         /\ inv[p].hist = "allMissing"
         /\ inv[p].last = "missing")
        => /\ inv[p].calls = inv[p].retries + 1
           /\ inv[p].result = "fallback"

\* Three answers in a row lacked a field and the invocation returned the
\* fallback.
C7_Witness ==
    \E p \in Invs :
        /\ inv[p].pc = "done"
        /\ inv[p].kind = "word"
        /\ inv[p].hist = "allMissing"
        /\ inv[p].last = "missing"
        /\ inv[p].retries = 2
        /\ inv[p].calls = 3
        /\ inv[p].result = "fallback"

\* The classifier has run on errIn.
Classified == cls /= NoClass /\ ~cls.raised

\* The message of a classification, lower-cased, contains the word.
ClsHas(w) == includes(toLowerCase(cls.displayErrorMsg), w)

\* C8: isQuotaExhausted holds exactly when (statusCode is 429 and the message
\* contains "quota") or the status tag is RESOURCE_EXHAUSTED or (statusCode is
\* absent and the message contains "quota" and one of "exceeded",
\* "exhausted"), the message taken lower-cased; isRateLimitRetryable holds
\* exactly when statusCode is 429 and isQuotaExhausted does not; never both.
C8_ClassificationRule ==
    Classified =>
        /\ cls.isQuotaExhaustedError <=>
              \/ cls.statusCode = Num(429) /\ ClsHas("quota")
              \/ cls.geminiErrorStatus = Str(<<"RESOURCE_EXHAUSTED">>)
              \/ /\ cls.statusCode = Undefined
                 /\ ClsHas("quota")
                 /\ (ClsHas("exceeded") \/ ClsHas("exhausted"))
        /\ cls.isRateLimitErrorForRetry <=>
              (cls.statusCode = Num(429) /\ ~cls.isQuotaExhaustedError)
        /\ ~(cls.isQuotaExhaustedError /\ cls.isRateLimitErrorForRetry)

\* C9 as stated: every error with statusCode 429 whose message does not
\* contain "quota" is rate-limit retryable and not quota-exhausted, whatever
\* its status tag.
C9_Any429WithoutQuota ==
    (Classified /\ cls.statusCode = Num(429) /\ ~ClsHas("quota"))
    => (cls.isRateLimitErrorForRetry /\ ~cls.isQuotaExhaustedError)

\* C9 amended: every error with statusCode 429 whose message does not
\* contain "quota" and whose status tag is not RESOURCE_EXHAUSTED is
\* rate-limit retryable and not quota-exhausted.
C9_429WithoutQuotaOrTag ==
    (/\ Classified
     /\ cls.statusCode = Num(429)
     /\ ~ClsHas("quota")
     /\ cls.geminiErrorStatus /= Str(<<"RESOURCE_EXHAUSTED">>))
    => (cls.isRateLimitErrorForRetry /\ ~cls.isQuotaExhaustedError)

\* A structured 429 error tagged UNAVAILABLE, without "quota" in its message,
\* was classified.
C9_Witness ==
    /\ Classified
    /\ cls.statusCode = Num(429)
    /\ ~ClsHas("quota")
    /\ cls.geminiErrorStatus = Str(<<"UNAVAILABLE">>)
    /\ cls.isRateLimitErrorForRetry

\* The value has no string message, neither in .error.message nor in .message.
NoStringMessage(v) ==
    \/ v.t /= "object"
    \/ /\ v.p.message.t /= "string"
       /\ (v.p.error.t /= "object" \/ v.p.error.p.message.t /= "string")

\* C10: parseGeminiError returns a classification for every value and never
\* raises; for a value without a string message the status code and the
\* status tag are absent and the message is the stringified value.
C10_ClassifierTotal ==
    cls /= NoClass =>
        /\ ~cls.raised
        /\ cls.isQuotaExhaustedError \in BOOLEAN
        /\ cls.isRateLimitErrorForRetry \in BOOLEAN
        /\ NoStringMessage(errIn)
           => /\ cls.statusCode = Undefined
              /\ cls.geminiErrorStatus = Undefined
              /\ cls.displayErrorMsg = String(errIn)
              /\ cls.detailedErrorMessage = toLowerCase(String(errIn))

\* A step of invocation p that takes one of the executor's branches: it ends
\* the invocation or sends it to its backoff sleep.
TakesBranch(p) == inv'[p] /= inv[p] /\ inv'[p].pc \in {"sleep", "done"}

\* C11: every branch an invocation takes (short-circuit, retry after an
\* error, retry after missing data, terminal error, quota abort, fallback,
\* success) calls addToast exactly once, except that a success of the first
\* attempt calls it not at all; also for a quota abort under a cooldown
\* already running and for the image variant.
C11_OneNotificationPerBranch ==
    [][\A p \in Invs :
          TakesBranch(p)
          => inv'[p].toasts - inv[p].toasts =
                 IF inv'[p].exit = "success" /\ inv'[p].calls = 1 THEN 0 ELSE 1]_vars

\* The step in which invocation p's provider call resolved with a text that
\* JSON.parse rejects.
UndecodableResolved(p) == inv[p].pc = "await" /\ inv'[p].last = "badjson"

\* C12: a resolved call whose text does not decode as JSON ends the
\* invocation at once: no further provider call, no sleep, the cooldown
\* state as it was.
C12_MalformedReturnsAtOnce ==
    [][\A p \in Invs :
          UndecodableResolved(p)
          => /\ inv'[p].pc = "done"
             /\ inv'[p].sleeps = inv[p].sleeps
             /\ isCurrentlyGeminiQuotaExhausted' = isCurrentlyGeminiQuotaExhausted
             /\ timers' = timers
             /\ quotaCooldownTimeoutId' = quotaCooldownTimeoutId]_vars

\* C13: an invocation has at most one provider call in flight: a call is
\* started only when none is pending, attempt 0 by the invocation's start
\* and attempt k+1 by the end of the sleep that followed attempt k.
C13_SequentialAttempts ==
    [][\A p \in Invs :
          /\ inv'[p].pending \in {0, 1}
          /\ inv'[p].calls > inv[p].calls
             => /\ inv'[p].calls = inv[p].calls + 1
                /\ inv[p].pending = 0
                /\ inv[p].pc = (IF inv'[p].i = 0 THEN "idle" ELSE "sleep")
                /\ Len(inv'[p].sleeps) = inv'[p].i]_vars

\* The third attempt is in flight after two rejected calls and two sleeps.
C13_Witness ==
    \E p \in Invs :
        /\ inv[p].pc = "await"
        /\ inv[p].pending = 1
        /\ inv[p].calls = 3
        /\ Len(inv[p].sleeps) = 2
        /\ inv[p].hist = "allRejected"

\* Invocation q activated the cooldown and its timer has not fired since: the
\* newest of the cooldown's toasts is q's activation toast.
ActivatedBy(q) ==
    /\ cooldownLog /= <<>>
    /\ cooldownLog[Len(cooldownLog)] = [type |-> "error", via |-> q]

\* C14: once one invocation has activated the cooldown, every other
\* invocation that starts before the timer fires returns null in its first
\* step, without a provider call and without touching the cooldown.
C14_SiblingsShortCircuit ==
    [][\A p, q \in Invs :
          (p /= q /\ ActivatedBy(q) /\ inv[p].pc = "idle" /\ inv'[p].pc /= "idle")
          => /\ inv'[p].pc = "done"
             /\ inv'[p].result = "null"
             /\ inv'[p].calls = 0
             /\ inv'[p].exit \in {"cooldown", "noCredential"}
             /\ UNCHANGED cooldownVars]_vars

\* Invocation 1 was short-circuited by the cooldown a sibling activated.
C14_Witness ==
    \E q \in Invs \ {1} :
        /\ ActivatedBy(q)
        /\ inv[q].exit = "quota"
        /\ inv[1].exit = "cooldown"
        /\ inv[1].calls = 0
        /\ inv[1].retries = 2

\* A provider call is started in this step: by an executor invocation, or by
\* the chat's sendMessageStream.
ExecutorCallStarted == \E p \in Invs : inv'[p].calls > inv[p].calls
ChatCallStarted == chat.pc = "idle" /\ chat'.pc = "sending"

\* C15: while the cooldown flag is set no provider call is started, neither
\* by an invocation that is in its retry loop since before the activation
\* nor by a chat send.
C15_NoCallDuringCooldown ==
    [][isCurrentlyGeminiQuotaExhausted => ~(ExecutorCallStarted \/ ChatCallStarted)]_vars

\* C16: the cooldown flag is read once, before attempt 0.  The short-circuit
\* exit is taken only by an invocation's first step; an invocation whose
\* sleep ends under a set flag (a client being configured) starts its next
\* attempt all the same, and no invocation makes more than retries + 1 calls.
C16_FlagReadOnce ==
    [][\A p \in Invs :
          /\ inv'[p].exit = "cooldown" => (inv[p].pc \in {"idle", "done"} /\ inv'[p].calls = 0)
          /\ (inv[p].pc = "sleep" /\ inv'[p] /= inv[p] /\ ai /\ isCurrentlyGeminiQuotaExhausted)
             => /\ inv'[p].pc = "await"
                /\ inv'[p].calls = inv[p].calls + 1
                /\ inv'[p].blind = inv[p].blind + 1
          /\ inv'[p].calls <= inv'[p].retries + 1]_vars

\* Invocation 1 passed the check, a sibling then activated the cooldown, and
\* invocation 1 went on to its second and third call under the set flag.
C16_Witness ==
    \E q \in Invs \ {1} :
        /\ ActivatedBy(q)
        /\ isCurrentlyGeminiQuotaExhausted
        /\ inv[1].pc = "await"
        /\ inv[1].retries = 2
        /\ inv[1].calls = 3
        /\ inv[1].blind = 2

\* C17: an invocation started with no client configured returns null in that
\* step after one toast of severity "warning", with no provider call, the
\* cooldown state and the loading flag untouched; the cooldown flag is not
\* looked at, so this is the exit also while a cooldown is running.
C17_NoCredential ==
    [][\A p \in Invs :
          (~ai /\ inv[p].pc = "idle" /\ inv'[p].pc /= "idle")
          => /\ inv'[p].pc = "done"
             /\ inv'[p].result = "null"
             /\ inv'[p].exit = "noCredential"
             /\ inv'[p].toasts = 1
             /\ inv'[p].toastType = "warning"
             /\ inv'[p].calls = 0
             /\ UNCHANGED cooldownVars
             /\ UNCHANGED globalLoading]_vars

\* The client was removed while the cooldown a sibling activated was running:
\* invocation 1 ended on the missing client, not on the cooldown.
C17_Witness ==
    /\ ~ai
    /\ isCurrentlyGeminiQuotaExhausted
    /\ \E q \in Invs \ {1} : ActivatedBy(q)
    /\ inv[1].exit = "noCredential"
    /\ inv[1].toasts = 1
    /\ inv[1].retries = 2

\* C18: an invocation never ends by raising: it returns the parsed record,
\* the fallback or null; and an invocation that returned null has toasted
\* at least once.
C18_NoRaise ==
    \A p \in Invs :
        inv[p].pc = "done"
        => /\ inv[p].exit /= "raised"
           /\ inv[p].result \in {"data", "fallback", "null"}
           /\ inv[p].result = "null" => inv[p].toasts >= 1

\* The sleeps a retry count allows (none for a negative count).
MaxSleeps(retries) == IF retries > 0 THEN retries ELSE 0

\* C19: an invocation makes at most retries + 1 provider calls and at most
\* retries backoff sleeps, and it returns, given that every provider call
\* settles and every sleep ends.
C19_BoundedAndTerminates ==
    /\ [](\A p \in Invs :
            /\ inv[p].calls <= inv[p].retries + 1
            /\ Len(inv[p].sleeps) <= MaxSleeps(inv[p].retries))
    /\ \A p \in Invs :
          (inv[p].pc \in {"await", "sleep"}) ~> (inv[p].pc = "done" /\ inv[p].exit /= "raised")

\* An invocation used up its three calls and two sleeps on failures of both
\* kinds and returned.
C19_Witness ==
    \E p \in Invs :
        /\ inv[p].pc = "done"
        /\ inv[p].retries = 2
        /\ inv[p].calls = 3
        /\ Len(inv[p].sleeps) = 2
        /\ inv[p].hist = "mixed"
        /\ inv[p].exit = "exhausted"

\* A decoded document with partOfSpeech, meaning and exampleSentence truthy.
Complete(doc) == TruthyFields(doc) = {"partOfSpeech", "meaning", "exampleSentence"}

\* C20: a word lookup returns the parsed record only when the record has
\* partOfSpeech, meaning and exampleSentence all truthy, and the attempt that
\* yields such a record ends the invocation in that step: no provider call,
\* sleep or toast is added, and a finished invocation does nothing more.
C20_SuccessNeedsFields ==
    [][\A p \in Invs :
          /\ (inv'[p].kind = "word" /\ inv'[p].result = "data") => Complete(inv'[p].doc)
          /\ (inv[p].pc = "await" /\ Complete(inv'[p].doc))
             => /\ inv'[p].pc = "done"
                /\ inv'[p].result = "data"
                /\ inv'[p].calls = inv[p].calls
                /\ inv'[p].sleeps = inv[p].sleeps
                /\ inv'[p].toasts = inv[p].toasts
          /\ inv[p].pc = "done" => inv'[p] = inv[p]]_vars

\* A lookup whose first answers lacked a field and whose third answer was
\* complete returned the record.
C20_Witness ==
    \E p \in Invs :
        /\ inv[p].kind = "word"
        /\ inv[p].result = "data"
        /\ inv[p].doc = "{full}"
        /\ inv[p].calls = 3
        /\ inv[p].hist = "allMissing"
        /\ inv[p].toasts = 2

\* Invocation p's attempt fails in this step with an error that is not
\* classified quota-exhausted.
NonQuotaError(p) ==
    /\ inv[p].pc \in {"await", "sleep"}
    /\ inv'[p] /= inv[p]
    /\ inv'[p].lastErr \in {"rate", "generic"}

\* Invocation p ends the sleep that followed such an error.
WakesAfterError(p) ==
    /\ inv[p].pc = "sleep"
    /\ inv[p].lastErr \in {"rate", "generic"}
    /\ inv'[p] /= inv[p]

\* C21: an error that is not quota-exhausted leaves the cooldown flag, the
\* timer handle and the pending timers as they were, and when it came on a
\* non-final attempt the end of the backoff sleep starts another provider call.
C21_NonQuotaFrame ==
    [][\A p \in Invs :
          /\ NonQuotaError(p)
             => /\ isCurrentlyGeminiQuotaExhausted' = isCurrentlyGeminiQuotaExhausted
                /\ quotaCooldownTimeoutId' = quotaCooldownTimeoutId
                /\ timers' = timers
          /\ WakesAfterError(p)
             => /\ inv'[p].pc = "await"
                /\ inv'[p].calls = inv[p].calls + 1]_vars

\* C22: the chat send has no retry loop.  An accepted send makes exactly one
\* sendMessageStream call; a failure, before or during the stream, ends the
\* send with exactly one error toast, and no fragment is consumed and no
\* call made after it until the next message is submitted.
C22_ChatNoRetry ==
    [][/\ (chat.pc = "idle" /\ chat'.pc /= "idle") => (chat'.pc = "sending" /\ chat'.calls = 1)
       /\ chat.pc /= "idle" => chat'.calls = chat.calls
       /\ (chat.pc /= "idle" /\ chat'.outcome = "failed")
          => /\ chat'.pc = "idle"
             /\ chat'.toasts = 1
             /\ chat'.lastToast = "error"
             /\ chat'.chunks = chat.chunks
       /\ (chat.pc = "idle" /\ chat'.pc = "idle")
          => (chat'.chunks = chat.chunks /\ chat'.toasts = chat.toasts)]_vars

\* A send failed in mid-stream, one fragment consumed.
C22_Witness ==
    /\ chat.pc = "idle"
    /\ chat.outcome = "failed"
    /\ chat.chunks = 1
    /\ chat.calls = 1
    /\ chat.toasts = 1

\* The step in which the send in flight fails.
ChatSendFails == chat.pc /= "idle" /\ chat'.outcome = "failed"

\* C23: when a chat send fails, before the stream opens or in mid-stream,
\* only the provisional model entry is removed: the list is then the list as
\* it was when the message was submitted followed by the user's message.
C23_OnlyProvisionalRemoved ==
    [][(ChatSendFails /\ chat.sendGen = chat.gen)
       => /\ Len(chat'.messages) = Len(chat.before) + 1
          /\ SubSeq(chat'.messages, 1, Len(chat.before)) = chat.before
          /\ chat'.messages[Len(chat'.messages)].role = "user"]_vars

\* A step of a send that was issued on the handle of an earlier conversation.
StaleSendStep ==
    /\ chat.pc /= "idle"
    /\ chat.sendGen /= chat.gen
    /\ chat'.gen = chat.gen

\* C24: once a new conversation is started the previous handle is not used
\* again: what still arrives from a send issued on the previous handle leaves
\* the new conversation's message list alone, and every later send goes to
\* the new handle.
C24_PreviousHandleUnused ==
    [][/\ StaleSendStep => chat'.messages = chat.messages
       /\ ChatCallStarted => chat'.sendGen = chat'.gen]_vars

\* The text a fragment carries: nothing for a chunk without text parts.
FragmentText(fragment) == IF fragment.t = "string" THEN fragment.s ELSE <<>>

RECURSIVE Concatenation(_)
Concatenation(fragments) ==
    IF fragments = <<>> THEN <<>>
    ELSE FragmentText(Head(fragments)) \o Concatenation(Tail(fragments))

\* C29: in a chat send whose stream completes normally the last message
\* shows, after each fragment, the concatenation of the fragments so far,
\* and after completion the concatenation of them all; the list has then
\* grown by exactly two entries, the user's message and the model's.
C29_Accumulation ==
    [][/\ (chat.pc = "streaming" /\ chat'.chunks = chat.chunks + 1)
          => /\ chat'.messages /= <<>>
             /\ chat'.messages[Len(chat'.messages)]
                    = ChatMessage("model", Concatenation(chat'.fragments))
       /\ (chat.pc = "streaming" /\ chat'.outcome = "done")
          => /\ Len(chat'.messages) = Len(chat.before) + 2
             /\ SubSeq(chat'.messages, 1, Len(chat.before)) = chat.before
             /\ chat'.messages[Len(chat.before) + 1].role = "user"
             /\ chat'.messages[Len(chat.before) + 2]
                    = ChatMessage("model", Concatenation(chat'.fragments))]_vars

\* The response text has been decoded.
Decoded == decoded /= NotDecoded

\* The document of a fenced block is set off from the opening fence and the
\* language tag, by whitespace or by its own first character.
SetOff == payload.innerL /= <<>> \/ payload.x \notin WordTokens

FenceTransparentSetOff ==
    Decoded =>
        IF payload.fenced
        THEN SetOff => decoded = JSONparse(<<payload.x>>)
        ELSE decoded = JSONparse(payload.text)

\* Invocation p, of the image variant, takes a resolved response.
ImageResolved(p) ==
    /\ inv[p].pc = "await"
    /\ inv[p].kind = "image"
    /\ inv'[p].last \in {"ok", "missing"}

\* C26: in the image variant a resolved response is a success only when it
\* carries image bytes, and then the bytes are returned; a response without
\* them goes to the backoff sleep while i < retries and on the last attempt
\* returns null with an error toast; no fallback value is ever returned.
C26_ImageNeedsBytes ==
    [][\A p \in Invs :
          ImageResolved(p) =>
             /\ inv'[p].result /= "fallback"
             /\ IF inv'[p].doc = "bytes"
                THEN /\ inv'[p].pc = "done"
                     /\ inv'[p].result = "data"
                ELSE IF inv[p].i < inv[p].retries
                THEN /\ inv'[p].pc = "sleep"
                     /\ inv'[p].sleeps = Append(inv[p].sleeps, inv[p].currentDelay)
                     /\ inv'[p].toastType = "warning"
                ELSE /\ inv'[p].pc = "done"
                     /\ inv'[p].result = "null"
                     /\ inv'[p].toasts = inv[p].toasts + 1
                     /\ inv'[p].toastType = "error"]_vars

\* An image invocation has given up after two responses without bytes.
C26_Witness ==
    \E p \in Invs :
        /\ inv[p].kind = "image"
        /\ inv[p].pc = "done"
        /\ inv[p].doc = "noBytes"
        /\ inv[p].calls = 2
        /\ inv[p].result = "null"
        /\ inv[p].toastType = "error"

\* C27: the statements after the loop (error toast, return null) are not
\* reached by an invocation with retries >= 0; an invocation that reaches
\* them has retries < 0 and has made no provider call.
C27_PostLoopOnlyNegative ==
    \A p \in Invs :
        inv[p].exit = "postLoop"
        => /\ inv[p].retries < 0
           /\ inv[p].calls = 0
           /\ inv[p].result = "null"
           /\ inv[p].toastType = "error"

\* An invocation with retries = -1 has fallen through the loop.
C27_Witness ==
    \E p \in Invs :
        /\ inv[p].exit = "postLoop"
        /\ inv[p].retries = 0 - 1
        /\ inv[p].calls = 0

\* C30: in every reachable state the cooldown flag is set exactly when a
\* deactivation timer is pending, which is exactly when the timer handle is
\* not null; the pending timer is the one the handle names, and there is at
\* most one.
C30_FlagIffTimer ==
    /\ isCurrentlyGeminiQuotaExhausted <=> (quotaCooldownTimeoutId /= 0)
    /\ isCurrentlyGeminiQuotaExhausted <=> (timers /= {})
    /\ Cardinality(timers) <= 1
    /\ \A t \in timers : t.id = quotaCooldownTimeoutId

\* A second cooldown is running, the first having expired.
C30_Witness ==
    /\ isCurrentlyGeminiQuotaExhausted
    /\ quotaCooldownTimeoutId = 2
    /\ Cardinality(timers) = 1

\* Executor invocations of the import that are in flight.
InFlight == {w \in 1..bulk.total : bulk.tasks[w] = "calling"}

\* A step that starts executor invocations.
StartsInvocations ==
    \E w \in 1..bulk'.total :
        /\ bulk'.tasks[w] = "calling"
        /\ (bulk.pc = "idle" \/ bulk.tasks[w] = "waiting")

\* C28: a bulk import works in batches of at most 5: never more than 5
\* executor invocations are in flight, a batch after the first is started
\* only once the delay after the batch before it is over, with every word of
\* the earlier batches settled, and when the import ends successCount +
\* failCount is the number of words submitted.
C28_Batches ==
    [][/\ Cardinality({w \in 1..bulk'.total : bulk'.tasks[w] = "calling"}) <= 5
       /\ (StartsInvocations /\ bulk'.i > 0)
          => /\ bulk.pc = "delay"
             /\ \A w \in 1..bulk.total :
                   (w - 1) \div batchSize < bulk'.i => bulk.tasks[w] \in {"ok", "fail"}
       /\ bulk'.pc = "done" => bulk'.successCount + bulk'.failCount = bulk'.total]_vars

\* An import of more than one batch has ended, with successes and failures.
C28_Witness ==
    /\ bulk.pc = "done"
    /\ bulk.total > batchSize
    /\ bulk.i = 1
    /\ bulk.successCount > 0
    /\ bulk.failCount > 0

\* Invocation p is between its pre-checks and its return: awaiting a
\* provider call or sleeping.
InFlightInvocation(p) == inv[p].pc \in {"await", "sleep"}

\* C31: the global loading flag is true whenever an executor invocation is
\* between its pre-checks and its return, overlapping siblings included: the
\* flag does not become false while one of them still awaits a provider call
\* or sleeps.
C31_LoadingWhileInFlight ==
    (\E p \in Invs : InFlightInvocation(p)) => globalLoading

\* C32: the "calls may resume" toast of a cooldown goes through the callback
\* and label of the invocation whose activation started that cooldown: the
\* pending timer carries them, every "info" toast names the invocation of
\* the "error" toast before it, and an invocation whose activate() call came
\* during the cooldown leaves no toast of the cooldown.
C32_ResumeByActivator ==
    /\ \A t \in timers :
          /\ cooldownLog /= <<>>
          /\ cooldownLog[Len(cooldownLog)] = [type |-> "error", via |-> t.via]
    /\ \A k \in 1..Len(cooldownLog) :
          cooldownLog[k].type = "info"
          => /\ k > 1
             /\ cooldownLog[k - 1] = [type |-> "error", via |-> cooldownLog[k].via]

\* A cooldown activated by one invocation has ended; the other invocation
\* ended on a quota error during it, and no toast of the cooldown names it.
C32_Witness ==
    \E p \in Invs, q \in Invs :
        /\ p /= q
        /\ cooldownLog = <<[type |-> "error", via |-> p], [type |-> "info", via |-> p]>>
        /\ inv[p].exit = "quota"
        /\ inv[q].exit = "quota"

\* A step of the tutor chat.
ChatStep == chat' /= chat

\* The newest chat send failed with an error classified quota-exhausted.
ChatFailedOnQuota ==
    /\ chat.pc = "idle"
    /\ chat.outcome = "failed"
    /\ chat.lastErr = "quota"

\* C33: the chat path never changes the cooldown state.  Every step of the
\* chat, a send failing with a quota-exhausted error included, leaves the
\* flag, the timer handle and the timers as they were; an invocation called
\* after such a failure, with the flag clear and a client configured, goes
\* on to the provider.
C33_ChatLeavesCooldown ==
    [][/\ ChatStep => UNCHANGED cooldownVars
       /\ \A p \in Invs :
             (/\ ChatFailedOnQuota
              /\ ~isCurrentlyGeminiQuotaExhausted
              /\ ai
              /\ inv[p].pc = "idle"
              /\ inv'[p].pc /= "idle"
              /\ inv'[p].retries >= 0)
             => (inv'[p].pc = "await" /\ inv'[p].calls = 1)]_vars

\* After a chat send failed on a quota error the flag is clear, and an
\* invocation called since awaits its first provider call.
C33_Witness ==
    /\ ChatFailedOnQuota
    /\ ~isCurrentlyGeminiQuotaExhausted
    /\ quotaCooldownTimeoutId = 0
    /\ globalLoading
    /\ inv[1].pc = "await"
    /\ inv[1].calls = 1
    /\ inv[2].pc = "idle"

\* A submit is accepted in this step.
SendAccepted == chat'.sends = chat.sends + 1

\* A submit is turned away in this step.
SendRefused == chat'.refused /= "none" /\ chat'.refused /= chat.refused

\* The send in flight ends in this step.
SendEnds == chat.pc \in {"sending", "streaming"} /\ chat'.outcome /= "none"

\* C34: at most one send is in flight on the chat screen.  A submit is
\* accepted only with no send in flight, a conversation handle and input
\* that is not blank; a submit turned away makes no provider call and leaves
\* the message list alone; and when a send ends, by completion or failure,
\* the loading flags are cleared.
C34_OneSendInFlight ==
    [][/\ SendAccepted
          => /\ chat.pc = "idle"
             /\ chat.handle
             /\ chat'.calls = 1
             /\ Len(chat'.messages) = Len(chat.messages) + 1
             /\ chat'.messages[Len(chat'.messages)].text /= <<>>
       /\ SendRefused
          => /\ chat'.messages = chat.messages
             /\ chat'.calls = chat.calls
             /\ chat'.pc = chat.pc
             /\ chat'.sends = chat.sends
             /\ globalLoading' = globalLoading
       /\ SendEnds
          => /\ chat'.pc = "idle"
             /\ ~globalLoading']_vars

\* A submit was turned away while the stream of the one send was open.
C34_Witness ==
    /\ chat.refused = "loading"
    /\ chat.pc = "streaming"
    /\ chat.sends = 1
    /\ chat.calls = 1

====
